---- MODULE Spec2Model ----
(***************************************************************************)
(* A model of the Twitter-to-Discord bot: the polling cycle                *)
(* (checkForNewTweets), its two fetch strategies, the rate-limit backoff   *)
(* tracker, the processed-tweets set and its file, the profile cache and   *)
(* the startup / timer / signal scheduling.                                *)
(*                                                                         *)
(* The repository holds three versions of the program; variable `variant`  *)
(* says which one runs:                                                    *)
(*   "index"  : src/index.js           (multi-account, backoff tracker)    *)
(*   "multi"  : src/unnamed/part_001   (multi-account, no backoff)         *)
(*   "single" : src/unnamed/part_000   (one account, no backoff)           *)
(*                                                                         *)
(* Time is counted in minutes (Date.now() / 60000).  Every `await` of the  *)
(* program is a position (pc) of a cycle; one action is the completion of  *)
(* one await together with all the synchronous code that follows it up to  *)
(* the next await.                                                         *)
(***************************************************************************)
EXTENDS Integers, Sequences, FiniteSets, TLC

\* ------------------------------------------------------------------ bounds

\* The clock of the full program stops at MaxTime minutes.
MaxTime == 2
\* At most MaxCycles executions of checkForNewTweets are started.
MaxCycles == 3
\* The failure counter is not raised above MaxFailures.
MaxFailures == 8
\* The clock of the tracker harness stops at MaxClock minutes.
MaxClock == 66
\* The store harness adds at most MaxAdds identifiers to the seen-set.
MaxAdds == 3

\* --------------------------------------------------------- program constants

MAX_BACKOFF_MINUTES == 60
\* saveProcessedTweets keeps the last SAVE_CAP entries: slice(-1000)
SAVE_CAP == 1000
\* fetchTweetsFromNitter of index.js keeps the first NITTER_CAP items: slice(0, 5)
NITTER_CAP == 5
\* the length of the nitterInstances array
NUM_INSTANCES == 4

Variants == {"index", "multi", "single"}

\* config.twitterUsernames (index.js, part_001) / config.twitterUsername (part_000)
Usernames(v) == IF v = "single" THEN <<"u1">> ELSE <<"u1", "u2">>

\* ------------------------------------------------------------- input domains

\* The timelines of the monitored accounts, newest tweet first, by username
\* number: what an upstream source answers with when it answers with posts.
\* (One list repeats an id, and the two accounts share an id.)
ShortTimeline == << <<103, 102, 101>>, <<102, 102>> >>
\* A first account with more posts than any fetch is meant to return.
LongTimeline == << <<106, 105, 104, 103, 102, 101>>, <<102, 102>> >>
\* A first account whose oldest listed post is the oldest id of a full file.
CapTimeline == << <<SAVE_CAP + 3, SAVE_CAP + 2, 1>>, <<SAVE_CAP + 2, SAVE_CAP + 2>> >>
TimelineChoices == { ShortTimeline, LongTimeline, CapTimeline }
\* config.checkIntervalMinutes
IntervalChoices == {1, 2}

\* ------------------------------------------------------------------ helpers

Min(a, b) == IF a < b THEN a ELSE b

RECURSIVE Pow2(_)
Pow2(n) == IF n = 0 THEN 1 ELSE 2 * Pow2(n - 1)

Range(s) == { s[k] : k \in 1..Len(s) }

\* Array.prototype.reverse
Reverse(s) == [k \in 1..Len(s) |-> s[Len(s) + 1 - k]]

\* Array.prototype.slice(-n)
LastN(s, n) == IF Len(s) <= n THEN s ELSE SubSeq(s, Len(s) - n + 1, Len(s))

\* Array.prototype.slice(0, n)
FirstN(s, n) == IF Len(s) <= n THEN s ELSE SubSeq(s, 1, n)

\* Set.prototype.add on an insertion-ordered Set
SetAdd(s, x) == IF x \in Range(s) THEN s ELSE Append(s, x)

\* new Set(array): insertion order, duplicates dropped (an array without
\* duplicates is its own insertion order)
RECURSIVE NewSet(_)
NewSet(a) == IF Cardinality(Range(a)) = Len(a) THEN a
             ELSE SetAdd(NewSet(SubSeq(a, 1, Len(a) - 1)), a[Len(a)])

\* -------------------------------------------------------------------- state

VARIABLES
    variant,            \* which version of the program runs
    timeline,           \* the accounts' timelines upstream
    env,                \* process.env: the options the program reads
    now,                \* Date.now(), in minutes
    apiFailures,        \* let apiFailures
    lastApiFailure,     \* let lastApiFailure
    processedTweets,    \* let processedTweets: a Set, as its insertion order
    file,               \* processed_tweets.json
    cachedUserProfiles, \* the usernames that have a cached profile
    proc,               \* "loaded", "running", "exit0", "exit1"
    startU,             \* start(): index of the username whose startup profile
                        \* request is in flight (0: none)
    timer,              \* the setInterval timer of start()
    cyc,                \* the executions of checkForNewTweets
    probe,              \* the tracker harness' last call and its result
    lastResponse,       \* the upstream answer handled by the last step, if any
    deliveries          \* the calls of the webhook that have ended, and how

vars == <<variant, timeline, env, now, apiFailures, lastApiFailure, processedTweets, file,
          cachedUserProfiles, proc, startU, timer, cyc, probe, lastResponse,
          deliveries>>

Cycles == 1..MaxCycles

\* ------------------------------------------------------------ configuration

\* const config = { ... }.  index.js defines no useNitter key, so there
\* config.useNitter is undefined (falsy) whatever USE_NITTER is; nor has it a
\* nitterInstance key.
Config(v, e) ==
    [ discordWebhookUrl  |-> e.DISCORD_WEBHOOK_URL,
      twitterBearerToken |-> e.TWITTER_BEARER_TOKEN,
      useNitter          |-> IF v = "index" THEN FALSE ELSE e.USE_NITTER,
      nitterInstance     |-> IF v = "index" THEN "undefined" ELSE e.NITTER_INSTANCE,
      checkIntervalMinutes |-> e.CHECK_INTERVAL_MINUTES ]

config == Config(variant, env)

\* Whether the module binds the name Parser (require('rss-parser')).
ParserDefined(v) == v # "index"

\* Whether the version has the rate-limit tracker at all.
HasTracker(v) == v = "index"

\* -------------------------------------------------- the processed-tweets file

\* The file by what JSON.parse makes of it: an array (data: its elements), a
\* string (data: its characters), null, another value (a number, a boolean, an
\* object: data holds it), or text that is not JSON; or no file, or a file
\* that cannot be read.
JsonFile(s) == [kind |-> "json", data |-> s]
AbsentFile == [kind |-> "absent", data |-> <<>>]
CorruptFile == [kind |-> "corrupt", data |-> <<>>]
UnreadableFile == [kind |-> "unreadable", data |-> <<>>]
StringFile(s) == [kind |-> "string", data |-> s]
NullFile == [kind |-> "null", data |-> <<>>]
ScalarFile(x) == [kind |-> "scalar", data |-> <<x>>]

\* What processed_tweets.json may hold when the process starts.
InitialFiles == { AbsentFile, CorruptFile, JsonFile(<<100, 101>>) }

\* A loadProcessedTweets() that wraps a value that is not an array:
\* new Set([].concat(JSON.parse(data)))
loadProcessedTweets_Wrapping(f) ==
    IF f.kind \in {"json", "scalar"} THEN NewSet(f.data)
    ELSE IF f.kind = "string" /\ f.data # <<>> THEN <<f.data[1]>>
    ELSE <<>>

\* loadProcessedTweets(): new Set(JSON.parse(data)), which is the set of the
\* elements of an array, the set of the characters of a string and the empty
\* set for null; or an empty Set when the file is missing or when reading,
\* parsing or new Set (of a value that is not iterable) throws
loadProcessedTweets(f) ==
    IF f.kind \in {"json", "string"} THEN NewSet(f.data) ELSE <<>>

\* A value that is missing (undefined); every id upstream is above it.
Undefined == 0
\* JSON's null; no id equals it.
Null == 0 - 1

\* JSON.stringify of an element of an array: a string is written as it is,
\* undefined is written as null.  (JSON.parse gives back what was written.)
JsonValue(x) == IF x = Undefined THEN Null ELSE x

\* JSON.stringify(tweetsArray, null, 2), by the values JSON.parse reads back
Stringify(a) == [k \in 1..Len(a) |-> JsonValue(a[k])]

\* A saveProcessedTweets that keeps the first 1000: slice(0, 1000)
SavedArray_Oldest(tweets) == FirstN(tweets, SAVE_CAP)

\* saveProcessedTweets(tweets): what is written: Array.from(tweets).slice(-1000)
SavedArray(tweets) == LastN(tweets, SAVE_CAP)

\* A saveProcessedTweets that writes nothing.
saveProcessedTweets_Skipped(tweets, f, written) == f

\* saveProcessedTweets(tweets): the file afterwards; writeFileSync may throw,
\* which is caught and logged, and the file stays as it was
saveProcessedTweets(tweets, f, written) ==
    IF written THEN JsonFile(Stringify(SavedArray(tweets))) ELSE f

\* -------------------------------------------------------- the backoff tracker

\* A getBackoffMinutes() that forgets the cap.
getBackoffMinutes_NoCap(af) == IF af = 0 THEN 0 ELSE Pow2(af)

\* getBackoffMinutes()
getBackoffMinutes(af) ==
    IF af = 0 THEN 0 ELSE Min(Pow2(af), MAX_BACKOFF_MINUTES)

\* A shouldSkipApi() that compares with <= instead of <.
shouldSkipApi_Inclusive(af, la, t) ==
    IF af = 0 THEN FALSE
    ELSE (t - la) <= getBackoffMinutes(af)

\* shouldSkipApi(): backoffMs and timeSinceFailure, both in minutes
shouldSkipApi(af, la, t) ==
    IF af = 0 THEN FALSE
    ELSE (t - la) < getBackoffMinutes(af)

\* A recordApiFailure() that starts the count again once the window has
\* elapsed.
recordApiFailure_Restart ==
    /\ apiFailures' = IF shouldSkipApi(apiFailures, lastApiFailure, now)
                      THEN apiFailures + 1 ELSE 1
    /\ lastApiFailure' = now

\* A recordApiFailure() that forgets to stamp the time.
recordApiFailure_NoStamp ==
    /\ apiFailures' = apiFailures + 1
    /\ UNCHANGED lastApiFailure

\* recordApiFailure()
recordApiFailure ==
    /\ apiFailures' = apiFailures + 1
    /\ lastApiFailure' = now

\* A recordApiSuccess() that takes one failure off the count.
recordApiSuccess_Decrement ==
    /\ apiFailures' = IF apiFailures = 0 THEN 0 ELSE apiFailures - 1
    /\ UNCHANGED lastApiFailure

\* recordApiSuccess()
recordApiSuccess ==
    /\ apiFailures' = 0
    /\ UNCHANGED lastApiFailure

\* A 429 that is handled like any other error.
On429_Ignored == UNCHANGED <<apiFailures, lastApiFailure>>

\* An upstream 429: recordApiFailure() in index.js, nothing in the others.
On429 == IF HasTracker(variant) THEN recordApiFailure
         ELSE UNCHANGED <<apiFailures, lastApiFailure>>

\* A successful upstream answer that the code follows with recordApiSuccess().
OnSuccess == IF HasTracker(variant) THEN recordApiSuccess
             ELSE UNCHANGED <<apiFailures, lastApiFailure>>

\* The outcome "429" is offered while the counter is below its cap.
May429 == HasTracker(variant) => apiFailures < MaxFailures

\* ------------------------------------------------------------ initial state

\* The mark of a username whose list this execution has not fetched.
Unfetched == <<0>>

\* An execution of checkForNewTweets: where it is (pc), its local variables
\* (u: the index of username; tweets; newTweets; i: the index of tweet in
\* newTweets; inst: the index of instance in nitterInstances), and what has
\* been observed of it.
IdleCycle ==
    [ pc |-> "idle", u |-> 0, tweets |-> <<>>, newTweets |-> <<>>, i |-> 0,
      inst |-> 0,
      \* observed of the current username:
      S0 |-> {},          \* the ids in processedTweets when the list was filtered
      sent |-> <<>>,      \* the ids handed to sendToDiscord so far
      lastOk |-> FALSE,   \* what the last sendToDiscord returned
      hOk |-> TRUE,       \* every sendToDiscord for this username returned true
      skip0 |-> FALSE,    \* the tracker signalled skip when the source was chosen
      primary |-> FALSE,  \* fetchTweetsFromAPI was called
      fallback |-> FALSE, \* fetchTweetsFromNitter was called
      mirrors |-> 0,      \* the mirror requests issued
      \* observed of the whole execution:
      fetched |-> <<Unfetched, Unfetched>>,  \* the list fetched, by username
      allOk |-> TRUE,     \* every sendToDiscord returned true
      any |-> FALSE,      \* a post was handed to sendToDiscord
      saved |-> 0,        \* the calls of saveProcessedTweets it has made
      limited |-> FALSE,  \* it has called recordApiFailure
      prior |-> {} ]      \* the executions that had ended when this one began

\* The record of an execution that has ended keeps what was observed of it.
Ended(r, pc) ==
    [IdleCycle EXCEPT !.pc = pc, !.fetched = r.fetched, !.allOk = r.allOk,
                      !.any = r.any, !.saved = r.saved, !.limited = r.limited,
                      !.prior = r.prior]

Envs ==
    [ DISCORD_WEBHOOK_URL : BOOLEAN,
      TWITTER_BEARER_TOKEN : BOOLEAN,
      USE_NITTER : BOOLEAN,
      RESET_PROCESSED : BOOLEAN,
      NITTER_INSTANCE : {"nitter.example"},
      CHECK_INTERVAL_MINUTES : IntervalChoices ]

\* (expired: the tracker did not signal skip when recordApiFailure was last
\* called)
NoProbe == [call |-> "none", result |-> FALSE, minutes |-> 0, since |-> "none",
            expired |-> FALSE]

\* The answer a step has handled: of which request (req: "user" and "tweets" of
\* fetchTweetsFromAPI, "profile" of fetchUserProfile, "feed" of a mirror,
\* "webhook" of sendToDiscord; also "write", the writeFileSync of the signal
\* handlers), how it ended, and in which execution (0: outside any).
Response(req, outcome, c) == [req |-> req, outcome |-> outcome, c |-> c]
NoResponse == Response("none", "none", 0)

\* A call of the webhook that has ended: by which execution, for which username
\* number, with the post of which id, and whether sendToDiscord returned true.
Delivery(c, u, id, ok) == [c |-> c, u |-> u, id |-> id, ok |-> ok]

\* The state when the module has been loaded: processedTweets is read from the
\* file, and RESET_PROCESSED (index.js only) clears it and saves the empty set.
LoadedFrom(files) ==
    /\ variant \in Variants
    /\ timeline \in TimelineChoices
    /\ env \in Envs
    /\ (variant # "index" => ~env.RESET_PROCESSED)
    /\ now = 0
    /\ apiFailures = 0
    /\ lastApiFailure = 0
    /\ \E f \in files :
         IF variant = "index" /\ env.RESET_PROCESSED
         THEN /\ processedTweets = <<>>
              /\ \E w \in BOOLEAN : file = saveProcessedTweets(<<>>, f, w)
         ELSE /\ processedTweets = loadProcessedTweets(f)
              /\ file = f
    /\ cachedUserProfiles = {}
    /\ proc = "loaded"
    /\ startU = 0
    /\ timer = [armed |-> FALSE, next |-> 0]
    /\ cyc = [c \in Cycles |-> IdleCycle]
    /\ probe = NoProbe
    /\ lastResponse = NoResponse
    /\ deliveries = {}

Loaded == LoadedFrom(InitialFiles)

\* ------------------------------------- checkForNewTweets: synchronous pieces
\* Each piece below is code that runs without an await.  It sets cyc' and
\* file', and reads the primed tracker, seen-set and cache: the action
\* that uses it sets those first.

SetCyc(c, r) == cyc' = [cyc EXCEPT ![c] = r]

\* The locals at the top of the loop body for username number u.
HandleStart(r, u) ==
    [Ended(r, "select") EXCEPT
        !.u = u,
        !.skip0 = HasTracker(variant)
                  /\ shouldSkipApi(apiFailures', lastApiFailure', now)]

\* The condition of line 412 (index.js) / 336 (part_001) / 333 (part_000).
SelectPrimary(v, cfg, af, la, t) ==
    IF v = "index"
    THEN ~cfg.useNitter /\ cfg.twitterBearerToken /\ ~shouldSkipApi(af, la, t)
    ELSE ~cfg.useNitter /\ cfg.twitterBearerToken

\* A fetchTweetsFromAPI that does not ask the tracker.
ApiProceeds_NoSkipCheck(v, cfg, af, la, t) == cfg.twitterBearerToken

\* fetchTweetsFromAPI's own early returns: TRUE when it goes on to its request.
ApiProceeds(v, cfg, af, la, t) ==
    IF v = "index"
    THEN cfg.twitterBearerToken /\ ~shouldSkipApi(af, la, t)
    ELSE cfg.twitterBearerToken

\* A filter that forgets to reverse.
NewTweets_NoReverse(tweets, seen) ==
    SelectSeq(tweets, LAMBDA x : x \notin Range(seen))

\* A reverse that forgets to filter.
NewTweets_NoFilter(tweets, seen) == Reverse(tweets)

\* newTweets = tweets.filter(t => !processedTweets.has(t.id)).reverse()
NewTweets(tweets, seen) ==
    Reverse(SelectSeq(tweets, LAMBDA x : x \notin Range(seen)))

\* fetchUserProfile up to its await: "cached", "synthetic" or "request"
ProfileLookup(v, cfg, cache, username, af, la, t) ==
    IF username \in cache THEN "cached"
    ELSE IF ~cfg.twitterBearerToken THEN "synthetic"
    ELSE IF v = "index" /\ shouldSkipApi(af, la, t) THEN "synthetic"
    ELSE "request"

\* An exception leaves checkForNewTweets: its promise is rejected.
Throw(c, r) ==
    /\ SetCyc(c, [r EXCEPT !.pc = "crashed"])
    /\ UNCHANGED file

\* The end of checkForNewTweets, with or without its saveProcessedTweets.
FinishCycle(c, r, saves) ==
    /\ SetCyc(c, [Ended(r, "done") EXCEPT !.saved = IF saves THEN @ + 1 ELSE @])
    /\ IF saves
       THEN \E w \in BOOLEAN : file' = saveProcessedTweets(processedTweets', file, w)
       ELSE UNCHANGED file

\* sendToDiscord(embed, userProfile) for newTweets[i], up to its await
BeginSend(c, r, i) ==
    /\ SetCyc(c, IF config.discordWebhookUrl
                 THEN [r EXCEPT !.i = i, !.any = TRUE,
                                !.sent = Append(r.sent, r.newTweets[i]),
                                !.pc = "send"]
                 ELSE [r EXCEPT !.i = i, !.any = TRUE,
                                !.sent = Append(r.sent, r.newTweets[i]),
                                !.lastOk = FALSE, !.hOk = FALSE, !.allOk = FALSE,
                                !.pc = "sendDelay"])
    /\ UNCHANGED file

\* const nitterInstances = [...]: the mirrors in the order they are tried
NitterInstances(v, cfg) ==
    IF v = "index"
    THEN <<"nitter.poast.org", "nitter.privacydev.net", "nitter.net", "nitter.cz">>
    ELSE <<cfg.nitterInstance, "nitter.privacydev.net", "nitter.poast.org",
           "nitter.net">>

\* fetchTweetsFromNitter(username) up to its first await: `new Parser(...)`
\* throws a ReferenceError where Parser is not defined
EnterNitter(c, r) ==
    IF ParserDefined(variant)
    THEN /\ SetCyc(c, [r EXCEPT !.pc = "nitter", !.inst = 1, !.mirrors = 1,
                                  !.fallback = TRUE])
         /\ UNCHANGED file
    ELSE Throw(c, [r EXCEPT !.fallback = TRUE])

\* The top of the loop over the usernames, for username number u
EnterHandle(c, r, u) ==
    IF u > Len(Usernames(variant)) THEN FinishCycle(c, r, TRUE)
    ELSE IF SelectPrimary(variant, config, apiFailures', lastApiFailure', now)
    THEN IF ApiProceeds(variant, config, apiFailures', lastApiFailure', now)
         THEN /\ SetCyc(c, [HandleStart(r, u) EXCEPT !.pc = "apiUser",
                                                     !.primary = TRUE])
              /\ UNCHANGED file
         ELSE EnterNitter(c, [HandleStart(r, u) EXCEPT !.primary = TRUE])
    ELSE EnterNitter(c, HandleStart(r, u))

\* A username is left with nothing dispatched ("No tweets found" / "No new
\* tweets"): index.js continues with the next username at once, part_001
\* returns 0 and waits 2 s when there are several usernames, part_000 returns
\* from checkForNewTweets (before its save).
LeaveHandle(c, r) ==
    CASE variant = "index" -> EnterHandle(c, r, r.u + 1)
      [] variant = "multi" ->
            IF Len(Usernames(variant)) > 1
            THEN /\ SetCyc(c, [r EXCEPT !.pc = "userDelay"])
                 /\ UNCHANGED file
            ELSE EnterHandle(c, r, r.u + 1)
      [] variant = "single" -> FinishCycle(c, r, FALSE)

\* The dispatch loop of a username has ended.
AfterLoop(c, r) ==
    CASE variant = "index" ->
            /\ SetCyc(c, [r EXCEPT !.pc = "userDelay"])
            /\ UNCHANGED file
      [] variant = "multi" ->
            IF Len(Usernames(variant)) > 1
            THEN /\ SetCyc(c, [r EXCEPT !.pc = "userDelay"])
                 /\ UNCHANGED file
            ELSE EnterHandle(c, r, r.u + 1)
      [] variant = "single" -> FinishCycle(c, r, TRUE)

\* From the fetched list to the first await after it: the filter, the profile
\* lookup and the first sendToDiscord.
Dedup(c, r, tweets) ==
    LET new == NewTweets(tweets, processedTweets')
        r2  == [r EXCEPT !.tweets = tweets, !.newTweets = new,
                         !.S0 = Range(processedTweets'),
                         !.fetched[r.u] = tweets]
    IN  IF tweets = <<>> \/ new = <<>> THEN LeaveHandle(c, r2)
        ELSE IF ProfileLookup(variant, config, cachedUserProfiles',
                              Usernames(variant)[r.u],
                              apiFailures', lastApiFailure', now) = "request"
        THEN /\ SetCyc(c, [r2 EXCEPT !.pc = "profile"])
             /\ UNCHANGED file
        ELSE BeginSend(c, r2, 1)

\* What a rejected promise of checkForNewTweets does to the process.  The
\* initial cycle is awaited by start(), whose catch handler exits with code 1.
\* A timer cycle's rejection is unhandled: the runtime either ends the process
\* (exit code 1) or only warns, depending on its version and flags.
ExitOnThrow(c) ==
    IF cyc'[c].pc = "crashed" /\ cyc[c].pc # "crashed"
    THEN IF c = 1 THEN proc' = "exit1"
         ELSE \E dies \in BOOLEAN : proc' = IF dies THEN "exit1" ELSE "running"
    ELSE proc' = "running"

\* start(), lines 487-492: setInterval once the awaited initial cycle resolved
ArmTimer ==
    timer' = IF cyc[1].pc # "done" /\ cyc'[1].pc = "done" /\ proc' = "running"
             THEN [armed |-> TRUE, next |-> now + config.checkIntervalMinutes]
             ELSE timer

Running == proc = "running"
At(c, pc) == Running /\ cyc[c].pc = pc

\* What every step of a cycle leaves alone.
CycleFrame == UNCHANGED <<variant, timeline, env, now, startU, probe>>

\* The step handles no upstream answer.
NoAnswer == lastResponse' = NoResponse

\* The execution after an answer o to one of its authenticated requests: a 429
\* in index.js has made it call recordApiFailure().
Answered(r, o) ==
    [r EXCEPT !.limited = @ \/ (o = "429" /\ HasTracker(variant))]

\* ------------------------------------------------------------------ actions

ApiOutcomes == {"ok", "noid", "429", "err"}
ProfileOutcomes == {"ok", "nouser", "429", "err"}
\* What the posts request or a mirror feed may answer with: the posts of the
\* timeline, no posts, a 429, or another failure.
TweetsOutcomes == {"ok", "empty", "429", "err"}
FeedOutcomes == {"ok", "empty", "err"}
\* The posts request asks for max_results 5 (index.js) or 10.
ApiPosts(v, tl) == FirstN(tl, IF v = "index" THEN 5 ELSE 10)

\* A start() that does not look at the webhook URL.
ConfigFault_Never(cfg) == FALSE

\* if (!config.discordWebhookUrl): the configuration that start() refuses
ConfigFault(cfg) == ~cfg.discordWebhookUrl

\* start() up to its first await.  Without a webhook URL it exits with code 1.
\* part_000 and part_001 first fetch the profiles (a request when there is a
\* token); index.js goes straight to the initial checkForNewTweets().
Start ==
    /\ proc = "loaded"
    /\ NoAnswer
    /\ UNCHANGED deliveries
    /\ UNCHANGED <<variant, timeline, env, now, apiFailures, lastApiFailure,
                   processedTweets, cachedUserProfiles, probe>>
    /\ IF ConfigFault(config)
       THEN /\ proc' = "exit1"
            /\ UNCHANGED <<startU, timer, cyc, file>>
       ELSE IF variant # "index" /\ config.twitterBearerToken
       THEN /\ proc' = "running"
            /\ startU' = 1
            /\ UNCHANGED <<timer, cyc, file>>
       ELSE /\ startU' = 0
            /\ EnterHandle(1, cyc[1], 1)
            /\ ExitOnThrow(1)
            /\ ArmTimer

\* start() of part_000 / part_001: the profile request of username startU has
\* ended; the next one is issued, or the initial cycle begins.
StartProfileDone(o) ==
    /\ Running /\ startU > 0
    /\ lastResponse' = Response("profile", o, 0)
    /\ UNCHANGED deliveries
    /\ UNCHANGED <<variant, timeline, env, now, apiFailures, lastApiFailure,
                   processedTweets, probe>>
    /\ cachedUserProfiles' =
         IF o = "ok" THEN cachedUserProfiles \cup {Usernames(variant)[startU]}
         ELSE cachedUserProfiles
    /\ IF startU < Len(Usernames(variant))
       THEN /\ startU' = startU + 1
            /\ UNCHANGED <<proc, timer, cyc, file>>
       ELSE /\ startU' = 0
            /\ EnterHandle(1, cyc[1], 1)
            /\ ExitOnThrow(1)
            /\ ArmTimer

\* The executions that have ended.
HasEnded == { d \in Cycles : cyc[d].pc \in {"done", "crashed"} }

\* setInterval(checkForNewTweets, intervalMs) fires: a new execution begins,
\* whatever the earlier ones are doing.
TimerFire(c) ==
    /\ Running /\ timer.armed /\ now >= timer.next
    /\ c > 1 /\ cyc[c].pc = "idle" /\ cyc[c - 1].pc # "idle"
    /\ NoAnswer
    /\ UNCHANGED deliveries
    /\ UNCHANGED <<variant, timeline, env, now, startU, probe, apiFailures,
                   lastApiFailure, processedTweets, cachedUserProfiles>>
    /\ EnterHandle(c, [cyc[c] EXCEPT !.prior = HasEnded], 1)
    /\ ExitOnThrow(c)
    /\ timer' = [timer EXCEPT !.next = now + config.checkIntervalMinutes]

\* The answer to GET /2/users/by/username/<username> of fetchTweetsFromAPI
ApiUserDone(c, o) ==
    /\ At(c, "apiUser")
    /\ lastResponse' = Response("user", o, c)
    /\ UNCHANGED deliveries
    /\ o = "429" => May429
    /\ CycleFrame
    /\ UNCHANGED <<processedTweets, cachedUserProfiles>>
    /\ IF o = "429" THEN On429 ELSE UNCHANGED <<apiFailures, lastApiFailure>>
    /\ IF o = "ok"
       THEN /\ SetCyc(c, [cyc[c] EXCEPT !.pc = IF variant = "index"
                                               THEN "apiDelay" ELSE "apiTweets"])
            /\ UNCHANGED file
       ELSE EnterNitter(c, Answered(cyc[c], o))
    /\ ExitOnThrow(c)
    /\ ArmTimer

\* index.js: the 1 s pause between the two API calls has passed
ApiDelayDone(c) ==
    /\ At(c, "apiDelay")
    /\ NoAnswer
    /\ UNCHANGED deliveries
    /\ CycleFrame
    /\ UNCHANGED <<processedTweets, cachedUserProfiles, apiFailures,
                   lastApiFailure, file, proc, timer>>
    /\ SetCyc(c, [cyc[c] EXCEPT !.pc = "apiTweets"])

\* The answer to GET /2/users/<id>/tweets: a list (maybe empty), a 429 or
\* another error
ApiTweetsDone(c, o) ==
    /\ At(c, "apiTweets")
    /\ lastResponse' = Response("tweets", o, c)
    /\ UNCHANGED deliveries
    /\ o = "429" => May429
    /\ CycleFrame
    /\ UNCHANGED <<processedTweets, cachedUserProfiles>>
    /\ CASE o = "429" -> On429
         [] o = "err" -> UNCHANGED <<apiFailures, lastApiFailure>>
         [] OTHER -> OnSuccess
    /\ IF o = "ok"
       THEN Dedup(c, cyc[c], ApiPosts(variant, timeline[cyc[c].u]))
       ELSE EnterNitter(c, Answered(cyc[c], o))
    /\ ExitOnThrow(c)
    /\ ArmTimer

\* A link is the sequence of the segments of its path; a segment is a word or
\* a run of digits.  An item of a feed has a link, or none, and a guid, or none.
Word(w) == [word |-> w, digits |-> 0]
Digits(n) == [word |-> "", digits |-> n]
Item(link, guid) == [link |-> link, guid |-> guid]
NoLink == <<Word("undefined")>>

\* The link of the post with id n on a mirror, and the feed a mirror serves
\* for a timeline: each post with its status link, and its id for guid.
StatusLink(n) == <<Word("user"), Word("status"), Digits(n)>>
FeedItems(ids) == [k \in 1..Len(ids) |-> Item(StatusLink(ids[k]), ids[k])]

\* item.link?.match(/status\/(\d+)/): the digits that follow the first
\* "status/" of the link which digits follow, or no match
RECURSIVE StatusMatch(_)
StatusMatch(link) ==
    IF link = NoLink \/ Len(link) < 2 THEN Undefined
    ELSE IF link[1].word = "status" /\ link[2].word = ""
    THEN link[2].digits
    ELSE StatusMatch(Tail(link))

\* const tweetId = tweetIdMatch ? tweetIdMatch[1] : item.guid
tweetId(item) ==
    IF StatusMatch(item.link) # Undefined THEN StatusMatch(item.link)
    ELSE item.guid

\* The posts (by id) that fetchTweetsFromNitter makes of a feed's items:
\* index.js maps the first 5, part_000 and part_001 map them all.
NitterPosts(v, items) ==
    LET kept == IF v = "index" THEN FirstN(items, NITTER_CAP) ELSE items
    IN  [k \in 1..Len(kept) |-> tweetId(kept[k])]

\* parser.parseURL of mirror number inst has ended: with items the posts are
\* returned, otherwise (no items, or an error, which is caught) the next
\* mirror is tried, and after the last one the result is empty.
NitterDone(c, o) ==
    /\ At(c, "nitter")
    /\ lastResponse' = Response("feed", o, c)
    /\ UNCHANGED deliveries
    /\ CycleFrame
    /\ UNCHANGED <<processedTweets, cachedUserProfiles, apiFailures, lastApiFailure>>
    /\ IF o = "ok"
       THEN Dedup(c, cyc[c], NitterPosts(variant, FeedItems(timeline[cyc[c].u])))
       ELSE IF cyc[c].inst < Len(NitterInstances(variant, config))
       THEN /\ SetCyc(c, [cyc[c] EXCEPT !.inst = @ + 1, !.mirrors = @ + 1])
            /\ UNCHANGED file
       ELSE Dedup(c, cyc[c], <<>>)
    /\ ExitOnThrow(c)
    /\ ArmTimer

\* The answer to the profile request of fetchUserProfile(username); every
\* outcome is followed by the first sendToDiscord.
ProfileDone(c, o) ==
    /\ At(c, "profile")
    /\ lastResponse' = Response("profile", o, c)
    /\ UNCHANGED deliveries
    /\ o = "429" => May429
    /\ CycleFrame
    /\ UNCHANGED processedTweets
    /\ cachedUserProfiles' =
         IF o = "ok" THEN cachedUserProfiles \cup {Usernames(variant)[cyc[c].u]}
         ELSE cachedUserProfiles
    /\ CASE o = "ok" -> OnSuccess
         [] o = "429" -> On429
         [] OTHER -> UNCHANGED <<apiFailures, lastApiFailure>>
    /\ BeginSend(c, Answered(cyc[c], o), 1)
    /\ ExitOnThrow(c)
    /\ ArmTimer

\* An add to a seen-set that is itself kept to the last 1000 entries.
AfterSend_Capped(seen, id, success) ==
    IF success THEN LastN(SetAdd(seen, id), SAVE_CAP) ELSE seen

\* An add that ignores what sendToDiscord returned.
AfterSend_Always(seen, id, success) == SetAdd(seen, id)

\* if (success) { processedTweets.add(tweet.id); }
AfterSend(seen, id, success) == IF success THEN SetAdd(seen, id) ELSE seen

\* axios.post to the webhook has ended: sendToDiscord returns ok, and on
\* success the id is added to processedTweets; then the pause begins.
SendDone(c, ok) ==
    /\ At(c, "send")
    /\ lastResponse' = Response("webhook", IF ok THEN "ok" ELSE "err", c)
    /\ CycleFrame
    /\ UNCHANGED <<cachedUserProfiles, apiFailures, lastApiFailure, file, proc, timer>>
    /\ processedTweets' =
         AfterSend(processedTweets, cyc[c].newTweets[cyc[c].i], ok)
    /\ deliveries' = deliveries \cup
         {Delivery(c, cyc[c].u, cyc[c].newTweets[cyc[c].i], ok)}
    /\ SetCyc(c, [cyc[c] EXCEPT !.pc = "sendDelay", !.lastOk = ok,
                                !.hOk = @ /\ ok, !.allOk = @ /\ ok])

\* The pause after a message has passed: the next new tweet is sent, or the
\* loop over newTweets ends.
SendDelayDone(c) ==
    /\ At(c, "sendDelay")
    /\ NoAnswer
    /\ UNCHANGED deliveries
    /\ CycleFrame
    /\ UNCHANGED <<processedTweets, cachedUserProfiles, apiFailures, lastApiFailure>>
    /\ IF cyc[c].i < Len(cyc[c].newTweets)
       THEN BeginSend(c, cyc[c], cyc[c].i + 1)
       ELSE AfterLoop(c, cyc[c])
    /\ ExitOnThrow(c)
    /\ ArmTimer

\* The pause between usernames has passed.
UserDelayDone(c) ==
    /\ At(c, "userDelay")
    /\ NoAnswer
    /\ UNCHANGED deliveries
    /\ CycleFrame
    /\ UNCHANGED <<processedTweets, cachedUserProfiles, apiFailures, lastApiFailure>>
    /\ EnterHandle(c, cyc[c], cyc[c].u + 1)
    /\ ExitOnThrow(c)
    /\ ArmTimer

\* SIGINT / SIGTERM: saveProcessedTweets(processedTweets); process.exit(0).
\* The process is gone afterwards, and with it the executions in progress and
\* the timer; the module's other variables keep their last values.
Signal ==
    /\ Running
    /\ UNCHANGED deliveries
    /\ \E w \in BOOLEAN :
         /\ file' = saveProcessedTweets(processedTweets, file, w)
         /\ lastResponse' = Response("write", IF w THEN "ok" ELSE "err", 0)
    /\ proc' = "exit0"
    /\ cyc' = [c \in Cycles |-> IdleCycle]
    /\ timer' = [armed |-> FALSE, next |-> 0]
    /\ startU' = 0
    /\ UNCHANGED <<variant, timeline, env, now, apiFailures, lastApiFailure,
                   processedTweets, cachedUserProfiles, probe>>

TimerDue == timer.armed /\ now >= timer.next
                /\ \E c \in Cycles : c > 1 /\ cyc[c].pc = "idle"

\* A minute passes while the process waits; a due timer fires first.
Tick ==
    /\ Running /\ now < MaxTime /\ ~TimerDue
    /\ now' = now + 1
    /\ NoAnswer
    /\ UNCHANGED deliveries
    /\ UNCHANGED <<variant, timeline, env, apiFailures, lastApiFailure, processedTweets,
                   file, cachedUserProfiles, proc, startU, timer, cyc, probe>>

Next ==
    \/ Start
    \/ \E o \in ProfileOutcomes : StartProfileDone(o)
    \/ \E c \in Cycles : TimerFire(c)
    \/ \E c \in Cycles, o \in ApiOutcomes : ApiUserDone(c, o)
    \/ \E c \in Cycles : ApiDelayDone(c)
    \/ \E c \in Cycles, o \in TweetsOutcomes : ApiTweetsDone(c, o)
    \/ \E c \in Cycles, o \in FeedOutcomes : NitterDone(c, o)
    \/ \E c \in Cycles, o \in ProfileOutcomes : ProfileDone(c, o)
    \/ \E c \in Cycles, ok \in BOOLEAN : SendDone(c, ok)
    \/ \E c \in Cycles : SendDelayDone(c)
    \/ \E c \in Cycles : UserDelayDone(c)
    \/ Signal
    \/ Tick

\* The program under a check interval longer than a cycle's pauses.
Init ==
    /\ Loaded
    /\ timeline = ShortTimeline
    /\ env.CHECK_INTERVAL_MINUTES = 2

Spec == Init /\ [][Next]_vars

\* The program under a check interval of one minute, with a token and with
\* the ids 100 and 101 on file.
InitOverlap ==
    /\ Loaded
    /\ timeline = ShortTimeline
    /\ variant \in {"index", "single"}
    /\ env = [ DISCORD_WEBHOOK_URL |-> TRUE, TWITTER_BEARER_TOKEN |-> TRUE,
               USE_NITTER |-> FALSE, RESET_PROCESSED |-> FALSE,
               NITTER_INSTANCE |-> "nitter.example",
               CHECK_INTERVAL_MINUTES |-> 1 ]
    /\ file = JsonFile(<<100, 101>>)

SpecOverlap == InitOverlap /\ [][Next]_vars

\* The program (index.js or part_000) with a webhook and a token, mirror-only
\* not set, and the ids 100 and 101 on file.
InitFair ==
    /\ Init
    /\ variant \in {"index", "single"}
    /\ env.DISCORD_WEBHOOK_URL /\ env.TWITTER_BEARER_TOKEN
    /\ ~env.USE_NITTER /\ ~env.RESET_PROCESSED
    /\ file = JsonFile(<<100, 101>>)

\* The steps that the runtime takes of itself: every step but the arrival of
\* a signal.
Scheduled ==
    \/ Start
    \/ \E o \in ProfileOutcomes : StartProfileDone(o)
    \/ \E c \in Cycles : TimerFire(c)
    \/ \E c \in Cycles, o \in ApiOutcomes : ApiUserDone(c, o)
    \/ \E c \in Cycles : ApiDelayDone(c)
    \/ \E c \in Cycles, o \in TweetsOutcomes : ApiTweetsDone(c, o)
    \/ \E c \in Cycles, o \in FeedOutcomes : NitterDone(c, o)
    \/ \E c \in Cycles, o \in ProfileOutcomes : ProfileDone(c, o)
    \/ \E c \in Cycles, ok \in BOOLEAN : SendDone(c, ok)
    \/ \E c \in Cycles : SendDelayDone(c)
    \/ \E c \in Cycles : UserDelayDone(c)
    \/ Tick

\* The program as the runtime schedules it: a callback that is due (a timer
\* that has expired, a request that has been answered or has timed out after
\* 10 s) is run, so the program does not stop while a step of its own is
\* possible.  A signal may arrive or not.
SpecFair == InitFair /\ [][Next]_vars /\ WF_vars(Scheduled)

\* The program on the long timeline, with a webhook and the ids 100 and 101
\* on file.
InitLong ==
    /\ Loaded
    /\ timeline = LongTimeline
    /\ env.DISCORD_WEBHOOK_URL /\ env.TWITTER_BEARER_TOKEN
    /\ ~env.RESET_PROCESSED
    /\ env.CHECK_INTERVAL_MINUTES = 2
    /\ file = JsonFile(<<100, 101>>)

SpecLong == InitLong /\ [][Next]_vars

\* ------------------------------------------------------- the tracker harness
\* The four tracker functions of index.js called in any order while the clock
\* runs; probe records the last call and what it returned.

TrackerFrame ==
    UNCHANGED <<variant, timeline, env, processedTweets, file,
                cachedUserProfiles, proc, startU, timer, cyc, lastResponse,
                deliveries>>

CallGetBackoffMinutes ==
    /\ proc = "loaded"
    /\ probe' = [probe EXCEPT !.call = "getBackoffMinutes",
                              !.minutes = getBackoffMinutes(apiFailures)]
    /\ UNCHANGED <<now, apiFailures, lastApiFailure>>
    /\ TrackerFrame

CallShouldSkipApi ==
    /\ proc = "loaded"
    /\ probe' = [probe EXCEPT !.call = "shouldSkipApi",
                              !.result = shouldSkipApi(apiFailures, lastApiFailure, now)]
    /\ UNCHANGED <<now, apiFailures, lastApiFailure>>
    /\ TrackerFrame

CallRecordApiFailure ==
    /\ proc = "loaded"
    /\ apiFailures < MaxFailures
    /\ recordApiFailure
    /\ probe' = [probe EXCEPT !.call = "recordApiFailure", !.since = "failure",
                              !.expired = ~shouldSkipApi(apiFailures,
                                                         lastApiFailure, now)]
    /\ UNCHANGED now
    /\ TrackerFrame

CallRecordApiSuccess ==
    /\ proc = "loaded"
    /\ recordApiSuccess
    /\ probe' = [probe EXCEPT !.call = "recordApiSuccess", !.since = "success"]
    /\ UNCHANGED now
    /\ TrackerFrame

\* A minute passes between two calls.
Clock ==
    /\ proc = "loaded"
    /\ now < MaxClock
    /\ now' = now + 1
    /\ probe' = [probe EXCEPT !.call = "none"]
    /\ UNCHANGED <<apiFailures, lastApiFailure>>
    /\ TrackerFrame

NextTracker ==
    \/ CallGetBackoffMinutes
    \/ CallShouldSkipApi
    \/ CallRecordApiFailure
    \/ CallRecordApiSuccess
    \/ Clock

InitTracker ==
    /\ Loaded
    /\ timeline = ShortTimeline
    /\ variant = "index"
    /\ env = [ DISCORD_WEBHOOK_URL |-> TRUE, TWITTER_BEARER_TOKEN |-> TRUE,
               USE_NITTER |-> FALSE, RESET_PROCESSED |-> FALSE,
               NITTER_INSTANCE |-> "nitter.example",
               CHECK_INTERVAL_MINUTES |-> 2 ]
    /\ file = AbsentFile

SpecTracker == InitTracker /\ [][NextTracker]_vars

\* --------------------------------------------------------- the store harness
\* The seen-set and its file on their own: identifiers are added, the set is
\* saved, and the process is started again, which loads the file.

\* The numbers 1 .. n
Iota(n) == [k \in 1..n |-> k]

\* The files the harness starts from: one of each kind, and two arrays that
\* fill the cap or nearly.
StoreFiles ==
    { AbsentFile, CorruptFile, UnreadableFile, NullFile, ScalarFile(7),
      StringFile(<<1, 2>>), JsonFile(<<100, 101>>),
      JsonFile(Iota(SAVE_CAP - 2)), JsonFile(Iota(SAVE_CAP)) }

\* The identifiers the harness adds.
NewIds == { 2 * SAVE_CAP + k : k \in 1..MaxAdds }

StoreFrame ==
    UNCHANGED <<variant, timeline, env, now, apiFailures, lastApiFailure,
                cachedUserProfiles, proc, startU, timer, cyc, lastResponse,
                deliveries>>

\* processedTweets.add(tweet.id)
CallAdd(id) ==
    /\ proc = "loaded"
    /\ processedTweets' = SetAdd(processedTweets, id)
    /\ probe' = [probe EXCEPT !.call = "add"]
    /\ UNCHANGED file
    /\ StoreFrame

\* saveProcessedTweets(processedTweets)
CallSave(written) ==
    /\ proc = "loaded"
    /\ file' = saveProcessedTweets(processedTweets, file, written)
    /\ probe' = [probe EXCEPT !.call = "saveProcessedTweets", !.result = written]
    /\ UNCHANGED processedTweets
    /\ StoreFrame

\* The process starts again: let processedTweets = loadProcessedTweets()
CallLoad ==
    /\ proc = "loaded"
    /\ processedTweets' = loadProcessedTweets(file)
    /\ probe' = [probe EXCEPT !.call = "loadProcessedTweets"]
    /\ UNCHANGED file
    /\ StoreFrame

NextStore ==
    \/ \E id \in NewIds : CallAdd(id)
    \/ \E written \in BOOLEAN : CallSave(written)
    \/ CallLoad

InitStore ==
    /\ LoadedFrom(StoreFiles)
    /\ timeline = ShortTimeline
    /\ variant = "index"
    /\ env = [ DISCORD_WEBHOOK_URL |-> TRUE, TWITTER_BEARER_TOKEN |-> TRUE,
               USE_NITTER |-> FALSE, RESET_PROCESSED |-> FALSE,
               NITTER_INSTANCE |-> "nitter.example",
               CHECK_INTERVAL_MINUTES |-> 2 ]

SpecStore == InitStore /\ [][NextStore]_vars

\* A file that earlier runs have filled to the cap: the ids 1 .. 1000.
CapFile == JsonFile(Iota(SAVE_CAP))

\* The program (index.js or part_000) started on the full file, with a webhook
\* and a token, while the first account still lists the post of id 1.
InitCap ==
    /\ LoadedFrom({CapFile})
    /\ timeline = CapTimeline
    /\ variant \in {"index", "single"}
    /\ env = [ DISCORD_WEBHOOK_URL |-> TRUE, TWITTER_BEARER_TOKEN |-> TRUE,
               USE_NITTER |-> FALSE, RESET_PROCESSED |-> FALSE,
               NITTER_INSTANCE |-> "nitter.example",
               CHECK_INTERVAL_MINUTES |-> 2 ]

SpecCap == InitCap /\ [][Next]_vars

\* ---------------------------------------------------- the round-trip harness
\* The store harness for part_000 and part_001, whose mirror fetch can return
\* a post without id: processedTweets.add(tweet.id) then adds undefined.

RoundFiles == { AbsentFile, JsonFile(<<100, 101>>), JsonFile(Iota(SAVE_CAP)) }
RoundIds == NewIds \cup {Undefined}

NextRound ==
    \/ \E id \in RoundIds : CallAdd(id)
    \/ \E written \in BOOLEAN : CallSave(written)
    \/ CallLoad

InitRound ==
    /\ LoadedFrom(RoundFiles)
    /\ timeline = ShortTimeline
    /\ variant \in {"multi", "single"}
    /\ env = [ DISCORD_WEBHOOK_URL |-> TRUE, TWITTER_BEARER_TOKEN |-> FALSE,
               USE_NITTER |-> TRUE, RESET_PROCESSED |-> FALSE,
               NITTER_INSTANCE |-> "nitter.example",
               CHECK_INTERVAL_MINUTES |-> 2 ]

SpecRound == InitRound /\ [][NextRound]_vars

\* ---------------------------------------------------------- the feed harness
\* The mapping of fetchTweetsFromNitter on its own: a mirror answers with a
\* feed whose items may lack a status link or a guid, the items are mapped to
\* posts, and the posts are filtered against the seen-set.

\* The links and the guids of the items the harness feeds.
FeedLinks == { NoLink, <<Word("user")>>, <<Word("status"), Word("pinned")>>,
               StatusLink(102), StatusLink(103),
               <<Word("user"), Word("status"), Digits(104), Word("photo"), Digits(1)>> }
FeedGuids == { Undefined, 101, 102 }
FeedItemChoices == { Item(l, g) : l \in FeedLinks, g \in FeedGuids }
\* The feeds: one item, or two.
Feeds == { <<x>> : x \in FeedItemChoices }
           \cup { <<x, y>> : x \in {Item(StatusLink(103), 101), Item(NoLink, Undefined)},
                             y \in FeedItemChoices }

FeedFrame ==
    UNCHANGED <<variant, timeline, env, now, apiFailures, lastApiFailure, file,
                cachedUserProfiles, proc, startU, timer, cyc, lastResponse,
                deliveries, processedTweets>>

\* parser.parseURL has answered with a feed of these items: the posts that
\* fetchTweetsFromNitter returns.
CallMapFeed(items) ==
    /\ proc = "loaded"
    /\ ParserDefined(variant)
    /\ probe' = [ call |-> "fetchTweetsFromNitter", result |-> TRUE, minutes |-> 0,
                  since |-> "none", expired |-> FALSE, items |-> items,
                  posts |-> NitterPosts(variant, items) ]
    /\ FeedFrame

\* The posts are filtered: tweets.filter(...).reverse()
CallFilter ==
    /\ proc = "loaded"
    /\ probe.call = "fetchTweetsFromNitter"
    /\ probe' = [ call |-> "filter", result |-> TRUE, minutes |-> 0,
                  since |-> "none", expired |-> FALSE,
                  items |-> probe.items,
                  posts |-> NewTweets(probe.posts, processedTweets) ]
    /\ FeedFrame

NextFeed ==
    \/ \E items \in Feeds : CallMapFeed(items)
    \/ CallFilter

InitFeed ==
    /\ Loaded
    /\ timeline = ShortTimeline
    /\ variant \in {"multi", "single"}
    /\ env = [ DISCORD_WEBHOOK_URL |-> TRUE, TWITTER_BEARER_TOKEN |-> FALSE,
               USE_NITTER |-> TRUE, RESET_PROCESSED |-> FALSE,
               NITTER_INSTANCE |-> "nitter.example",
               CHECK_INTERVAL_MINUTES |-> 2 ]
    /\ file = JsonFile(<<100, 101>>)

SpecFeed == InitFeed /\ [][NextFeed]_vars

\* =================================================================== claims

\* The executions of checkForNewTweets that are in progress.
InProgress == { c \in Cycles : cyc[c].pc \notin {"idle", "done", "crashed"} }

\* The elements of L whose id is not in S, oldest first (L is newest first).
RECURSIVE OldestFirstNew(_, _)
OldestFirstNew(L, S) ==
    IF L = <<>> THEN <<>>
    ELSE LET rest == OldestFirstNew(Tail(L), S)
         IN  IF Head(L) \in S THEN rest ELSE Append(rest, Head(L))

InLoop(r) == r.pc \in {"send", "sendDelay"}

\* ------------------------------------------------------------------- C1
\* While a username's new tweets are being dispatched, the ids handed to
\* sendToDiscord so far are the first i of the expected sequence.
C1_Prefix ==
    \A c \in Cycles :
        InLoop(cyc[c]) =>
            LET e == OldestFirstNew(cyc[c].tweets, cyc[c].S0)
            IN  /\ cyc[c].i \in 1..Len(e)
                /\ cyc[c].sent = SubSeq(e, 1, cyc[c].i)

\* When the dispatch loop of a username ends, the ids handed over are all of
\* the expected sequence, and when every delivery succeeded the seen-set holds
\* S and every id of L.
C1_AtLoopEnd ==
    \A c \in Cycles :
        (InLoop(cyc[c]) /\ ~InLoop(cyc'[c]) /\ proc' # "exit0") =>
            /\ cyc[c].sent = OldestFirstNew(cyc[c].tweets, cyc[c].S0)
            /\ cyc[c].hOk =>
                 (cyc[c].S0 \cup Range(cyc[c].tweets)) \subseteq Range(processedTweets')

\* C1: for a username whose fetch returned L while the seen-set was S, the
\* posts handed to delivery are exactly the elements of L whose id is not in
\* S, in the reverse of their order in L; with every delivery successful the
\* seen-set ends as S plus the ids of L.
C1_Dedup == []C1_Prefix /\ [][C1_AtLoopEnd]_vars

\* The scenario of C1: S = {100, 101}, L = [103, 102, 101], dispatched
\* [102, 103], seen-set {100, 101, 102, 103}.
C1_Witness ==
    \E c \in Cycles :
        /\ cyc[c].pc = "sendDelay"
        /\ cyc[c].tweets = <<103, 102, 101>>
        /\ cyc[c].S0 = {100, 101}
        /\ cyc[c].sent = <<102, 103>>
        /\ cyc[c].hOk
        /\ processedTweets = <<100, 101, 102, 103>>

\* ------------------------------------------------------------------- C2
\* What a completed delivery does to the seen-set.
C2_Step ==
    \A c \in Cycles :
        (cyc[c].pc = "send" /\ cyc'[c].pc = "sendDelay") =>
            LET id == cyc[c].newTweets[cyc[c].i]
            IN  IF cyc'[c].lastOk
                THEN /\ id \in Range(processedTweets')
                     /\ Range(processedTweets') = Range(processedTweets) \cup {id}
                ELSE processedTweets' = processedTweets

\* The id of a post whose delivery succeeded is in the seen-set while the
\* pause runs and when the next post is dispatched.
C2_BeforeNext ==
    \A c \in Cycles :
        /\ (cyc[c].pc = "sendDelay" /\ cyc[c].lastOk) =>
               cyc[c].newTweets[cyc[c].i] \in Range(processedTweets)
        /\ (cyc[c].pc = "send" /\ cyc[c].i > 1 /\ cyc[c].lastOk) =>
               cyc[c].newTweets[cyc[c].i - 1] \in Range(processedTweets)

\* C2: a post's id is added to the seen-set exactly when its delivery call
\* reported success; on failure the seen-set is left unchanged, on success the
\* id is in the seen-set before the next post is dispatched.
C2_AddOnSuccessOnly == [][C2_Step]_vars /\ []C2_BeforeNext

\* A failed delivery left its id out of the seen-set, and a later post of the
\* same username was delivered and added.
C2_Witness ==
    \E c \in Cycles :
        /\ cyc[c].pc = "sendDelay" /\ cyc[c].i = 2
        /\ cyc[c].lastOk /\ ~cyc[c].hOk
        /\ cyc[c].newTweets[1] \notin Range(processedTweets)
        /\ cyc[c].newTweets[2] \in Range(processedTweets)

\* ------------------------------------------------------------------- C3
\* Execution b repeats execution a: it began after a had ended, and every
\* list it has fetched so far is the list a fetched for that username.
Repeats(a, b) ==
    /\ a \in cyc[b].prior
    /\ cyc[b].pc # "idle"
    /\ \A h \in 1..2 :
          cyc[b].fetched[h] # Unfetched => cyc[b].fetched[h] = cyc[a].fetched[h]

\* C3: a cycle that follows a cycle in which every delivery succeeded, and
\* in which every fetch returns the same list, dispatches no post.
C3_Idempotent ==
    \A a, b \in Cycles :
        (cyc[a].allOk /\ Repeats(a, b)) => ~cyc[b].any

\* A cycle dispatched posts, all delivered; the next one fetched the same
\* lists for both usernames, and has ended without dispatching.
C3_Witness ==
    \E a, b \in Cycles :
        /\ cyc[a].any /\ cyc[a].allOk /\ Repeats(a, b)
        /\ cyc[b].pc = "done"
        /\ cyc[b].fetched = cyc[a].fetched
        /\ \A h \in 1..2 : cyc[b].fetched[h] \notin {Unfetched, <<>>}

\* ------------------------------------------------------------------- C4
\* C4: at most one execution of checkForNewTweets is in progress at any time.
C4_NoOverlap == Cardinality(InProgress) <= 1

\* ------------------------------------------------------------------- C5
\* The username of execution c has been given up: the execution was aborted
\* while fetching, or went on to the pause with no post fetched.
GivenUp(c) ==
    \/ cyc[c].pc = "crashed"
    \/ cyc[c].pc = "userDelay" /\ cyc[c].tweets = <<>>

\* C5: a username is given up only after the fallback strategy has been
\* attempted for it, that is after a mirror has been queried.
C5_FallbackBeforeGivingUp ==
    \A c \in Cycles : GivenUp(c) => cyc[c].mirrors >= 1

\* ------------------------------------------------------------------- C6
\* C6: for each username the primary strategy is attempted exactly when the
\* mirror-only option is not set, a token is configured and the tracker does
\* not signal skip.
C6_SourceSelection ==
    \A c \in Cycles :
        cyc[c].pc \notin {"idle", "done"} =>
            ( cyc[c].primary <=>
                ( /\ ~env.USE_NITTER
                  /\ env.TWITTER_BEARER_TOKEN
                  /\ ~cyc[c].skip0 ) )

\* ------------------------------------------------------------------- C7
\* C7: fetchTweetsFromNitter never raises to its caller: no execution of
\* checkForNewTweets is ever aborted by an exception of the fallback fetch.
C7_FallbackNeverRaises ==
    \A c \in Cycles : cyc[c].pc # "crashed"

\* ------------------------------------------------------------------- C8
\* The backoff window in minutes by failure count, as the specification
\* lists it: 0, then 2, 4, 8, 16, 32, then 60 for ever.
BackoffTable(f) ==
    IF f = 0 THEN 0
    ELSE IF f <= 5 THEN <<2, 4, 8, 16, 32>>[f]
    ELSE 60

\* C8: getBackoffMinutes() returns 0 for failure count 0 and min(2^f, 60)
\* for f >= 1: 2, 4, 8, 16, 32, 60, 60, ..., never more than 60.
C8_BackoffWindow ==
    probe.call = "getBackoffMinutes" =>
        /\ probe.minutes = BackoffTable(apiFailures)
        /\ probe.minutes <= 60

\* getBackoffMinutes() was called after seven failures and returned the cap.
C8_Witness ==
    /\ probe.call = "getBackoffMinutes"
    /\ apiFailures = 7
    /\ probe.minutes = 60

\* ------------------------------------------------------------------- C9
\* What shouldSkipApi() returned, against the condition of the claim.
C9_Result ==
    probe.call = "shouldSkipApi" =>
        ( probe.result <=>
            ( /\ apiFailures > 0
              /\ now - lastApiFailure < BackoffTable(apiFailures) ) )

\* A call of shouldSkipApi() changes no tracker state.
C9_Frame ==
    (probe'.call = "shouldSkipApi") =>
        UNCHANGED <<apiFailures, lastApiFailure>>

\* C9: shouldSkipApi() returns true exactly when the failure count is above
\* 0 and the time since the last failure is strictly less than the backoff
\* window of the current count; it changes no tracker state.
C9_ShouldSkip == []C9_Result /\ [][C9_Frame]_vars

\* shouldSkipApi() returned false with a positive failure count, exactly when
\* the window had elapsed.
C9_Witness ==
    /\ probe.call = "shouldSkipApi"
    /\ apiFailures = 3
    /\ now - lastApiFailure = 8
    /\ ~probe.result

\* ------------------------------------------------------------------ C10
\* recordApiFailure() adds one to the count and stamps the current time.
C10_Step ==
    (probe'.call = "recordApiFailure") =>
        /\ apiFailures' = apiFailures + 1
        /\ lastApiFailure' = now

\* Right after recordApiFailure(), shouldSkipApi() is true; and as long as no
\* other record call intervenes, a call of shouldSkipApi() returns true
\* exactly while the time since the failure is below the window of the count.
C10_After ==
    /\ probe.call = "recordApiFailure" =>
           shouldSkipApi(apiFailures, lastApiFailure, now)
    /\ (probe.call = "shouldSkipApi" /\ probe.since = "failure") =>
           ( probe.result <=>
               now - lastApiFailure < BackoffTable(apiFailures) )

\* C10: recordApiFailure() increases the failure count by exactly 1 and
\* stamps the last-failure time; shouldSkipApi() is true immediately
\* afterwards and on every call until the time since that failure reaches
\* the window of the new count, after which it is false.
C10_RecordFailure == [][C10_Step]_vars /\ []C10_After

\* After a second failure stamped at minute 5, shouldSkipApi() called at
\* minute 9 returned false, the window of 4 minutes having elapsed.
C10_Witness ==
    /\ probe.call = "shouldSkipApi" /\ probe.since = "failure"
    /\ apiFailures = 2 /\ lastApiFailure = 5
    /\ now = 9
    /\ ~probe.result

\* ------------------------------------------------------------------ C11
\* What a call of recordApiSuccess() does: the count is 0 afterwards, the
\* last-failure time is as before, and shouldSkipApi() is false.
C11_Step ==
    (probe'.call = "recordApiSuccess") =>
        /\ apiFailures' = 0
        /\ lastApiFailure' = lastApiFailure
        /\ ~shouldSkipApi(apiFailures', lastApiFailure', now')
        /\ apiFailures = 0 => UNCHANGED <<apiFailures, lastApiFailure>>

\* After recordApiSuccess(), and until the next recordApiFailure(), every call
\* of shouldSkipApi() returns false.
C11_After ==
    /\ probe.call = "recordApiSuccess" => apiFailures = 0
    /\ (probe.call = "shouldSkipApi" /\ probe.since = "success") => ~probe.result

\* C11: recordApiSuccess() sets the failure count to 0 from any state, so
\* shouldSkipApi() is false immediately afterwards whatever the last-failure
\* time is; called with the count already 0 (or a second time) it leaves the
\* tracker as it is.
C11_RecordSuccess == [][C11_Step]_vars /\ []C11_After

\* recordApiSuccess() was called in the very minute of a failure, inside what
\* was the backoff window; then shouldSkipApi() returned false.
C11_Witness ==
    /\ probe.call = "shouldSkipApi" /\ probe.since = "success"
    /\ lastApiFailure > 0 /\ now = lastApiFailure
    /\ apiFailures = 0
    /\ ~probe.result

\* ------------------------------------------------------------------ C12
\* The step has handled the successful answer of an authenticated request:
\* the user lookup or the posts request of fetchTweetsFromAPI, or the profile
\* request of fetchUserProfile.
AuthSuccess ==
    \/ lastResponse'.req = "user" /\ lastResponse'.outcome = "ok"
    \/ lastResponse'.req = "tweets" /\ lastResponse'.outcome \in {"ok", "empty"}
    \/ lastResponse'.req = "profile" /\ lastResponse'.outcome = "ok"

C12_Step == AuthSuccess => apiFailures' = 0

\* C12: whenever an authenticated upstream request completes successfully
\* (the identifier-resolution request, the posts request or the profile
\* request), the failure count is 0 immediately afterwards.
C12_ResetOnAnySuccess == [][C12_Step]_vars

\* ------------------------------------------------------------------ C13
\* The requests that carry the token.
AuthRequests == {"user", "tweets", "profile"}

\* The execution went on with no result from the request it has just handled:
\* after a failed request of fetchTweetsFromAPI the caller has called the
\* fallback, after a failed profile request the first post is sent under the
\* placeholder profile.
ZeroResults ==
    LET c == lastResponse'.c
    IN  IF lastResponse'.req = "profile"
        THEN cyc'[c].pc \in {"send", "sendDelay"}
             /\ cachedUserProfiles' = cachedUserProfiles
        ELSE cyc'[c].fallback /\ cyc'[c].tweets = <<>>

\* In src/index.js: a 429 adds one failure and stamps it; any other error of
\* an authenticated request leaves the tracker alone and yields no result;
\* and an error of a mirror or of the webhook leaves the tracker alone too.
C13_Step ==
    HasTracker(variant) =>
        /\ (lastResponse'.req \in AuthRequests /\ lastResponse'.outcome = "429") =>
               /\ apiFailures' = apiFailures + 1
               /\ lastApiFailure' = now
        /\ (lastResponse'.req \in AuthRequests /\ lastResponse'.outcome = "err") =>
               /\ UNCHANGED <<apiFailures, lastApiFailure>>
               /\ ZeroResults
        /\ (lastResponse'.req \in {"feed", "webhook"} /\ lastResponse'.outcome = "err") =>
               UNCHANGED <<apiFailures, lastApiFailure>>

\* C13: only an HTTP 429 changes the backoff state on failure: a 429 from an
\* authenticated request adds exactly one to the failure count, any other
\* error leaves the count and the last-failure time unchanged and is treated
\* as zero results.
C13_Only429 == [][C13_Step]_vars

\* With one failure on the count, the posts request failed with another
\* error: the count is still 1.
C13_Witness ==
    /\ variant = "index"
    /\ lastResponse.req = "tweets" /\ lastResponse.outcome = "err"
    /\ apiFailures = 1
    /\ cyc[lastResponse.c].fallback

\* ------------------------------------------------------------------ C14
\* The tracker signals skip, by the table of the specification.
SkipSignalled ==
    HasTracker(variant) /\ apiFailures > 0
    /\ now - lastApiFailure < BackoffTable(apiFailures)

\* Called in the current state, with or without a token, fetchTweetsFromAPI
\* goes on to its first request only with a token and no skip signal;
\* otherwise it returns [] at once.
C14_EarlyReturn ==
    \A token \in BOOLEAN :
        ApiProceeds(variant, [config EXCEPT !.twitterBearerToken = token],
                    apiFailures, lastApiFailure, now)
            <=> (token /\ ~SkipSignalled)

\* A request of fetchTweetsFromAPI is outstanding, or due after the pause,
\* only for a username for which there was a token and no skip signal.
C14_NoRequest ==
    \A c \in Cycles :
        cyc[c].pc \in {"apiUser", "apiDelay", "apiTweets"} =>
            /\ config.twitterBearerToken
            /\ ~cyc[c].skip0
            /\ cyc[c].primary /\ ~cyc[c].fallback

\* When a request of fetchTweetsFromAPI has not brought posts, the function
\* has returned [] to checkForNewTweets, which has called the fallback: no
\* exception has left fetchTweetsFromAPI.
C14_Step ==
    (lastResponse'.req \in {"user", "tweets"} /\ lastResponse'.outcome # "ok") =>
        LET c == lastResponse'.c
        IN  /\ cyc'[c].primary
            /\ cyc'[c].fallback
            /\ cyc'[c].tweets = <<>>
            /\ cyc'[c].u = cyc[c].u

\* C14: fetchTweetsFromAPI returns an empty list and never raises when the
\* token is absent, when the tracker signals skip, or when either of its
\* requests fails; in the first two cases it issues no request at all.
C14_PrimaryNeverRaises ==
    /\ [](C14_EarlyReturn /\ C14_NoRequest)
    /\ [][C14_Step]_vars

\* The posts request of part_001 failed; its fallback is querying the first
\* mirror for the same username.
C14_Witness ==
    /\ variant = "multi"
    /\ lastResponse.req = "tweets" /\ lastResponse.outcome = "err"
    /\ cyc[lastResponse.c].pc = "nitter"
    /\ cyc[lastResponse.c].primary

\* ------------------------------------------------------------------ C15
\* From failure count 0, a 429 answers a request of fetchTweetsFromAPI.
FirstRateLimit ==
    /\ HasTracker(variant)
    /\ apiFailures = 0
    /\ lastResponse'.req \in {"user", "tweets"}
    /\ lastResponse'.outcome = "429"

\* The count becomes 1 and is stamped with the current time.
C15_Counted == FirstRateLimit => (apiFailures' = 1 /\ lastApiFailure' = now)

\* The fallback is attempted for the same username in the same execution: a
\* mirror is being queried.
C15_Fallback ==
    FirstRateLimit =>
        LET c == lastResponse'.c
        IN  /\ cyc'[c].u = cyc[c].u
            /\ cyc'[c].mirrors >= 1

\* A username taken up less than 2 minutes after a first failure is not
\* fetched with the primary strategy.
C15_Skipped ==
    \A c \in Cycles :
        ( /\ cyc'[c].u # cyc[c].u /\ cyc'[c].u > 0
          /\ HasTracker(variant)
          /\ apiFailures' = 1 /\ now' - lastApiFailure' < 2 ) =>
            ~cyc'[c].primary

\* C15: from failure count 0, when the API answers a username's fetch with
\* HTTP 429, the count becomes 1, the fallback fetch is attempted for that
\* username in the same cycle, and a cycle that starts less than 2 minutes
\* after the failure does not attempt the primary strategy.
C15_RateLimitScenario == [][C15_Counted /\ C15_Fallback /\ C15_Skipped]_vars

\* ------------------------------------------------------------------ C16
\* C16: after any saveProcessedTweets, the persisted sequence has at most
\* 1000 entries: the 1000 most recently added identifiers of the in-memory
\* set (all of them when there are fewer), in insertion order.
C16_SaveCap ==
    (probe.call = "saveProcessedTweets" /\ probe.result) =>
        LET n == Len(processedTweets)
            k == IF n <= 1000 THEN n ELSE 1000
        IN  /\ file.kind = "json"
            /\ Len(file.data) = k
            /\ k <= 1000
            /\ \A j \in 1..k : file.data[j] = processedTweets[n - k + j]

\* A set of 1003 identifiers was saved: the file holds 1000, from the fourth
\* on, and the last one added is the last one on file.
C16_Witness ==
    /\ probe.call = "saveProcessedTweets" /\ probe.result
    /\ Len(processedTweets) = 1003
    /\ Len(file.data) = 1000
    /\ file.data[1] = processedTweets[4]
    /\ file.data[1000] = processedTweets[1003]

\* ------------------------------------------------------------------ C18
\* The seen-set right after the process has loaded it.
JustLoaded == probe.call = "loadProcessedTweets"

\* C18 as stated: loadProcessedTweets returns the empty set when the file is
\* missing, unreadable, or holds anything but a JSON array of identifiers.
C18_EmptyUnlessArray ==
    (JustLoaded /\ file.kind # "json") => processedTweets = <<>>

\* C18 as amended: loadProcessedTweets returns the empty set, and does not
\* raise, when the file is missing, unreadable, not JSON, or holds null or a
\* JSON value that cannot be iterated (a number, a boolean, an object); a JSON
\* string is loaded as the set of its characters, an array as the set of its
\* elements.
C18_EmptyOnFailure ==
    JustLoaded =>
        /\ file.kind \in {"absent", "unreadable", "corrupt", "null", "scalar"} =>
               processedTweets = <<>>
        /\ file.kind \in {"string", "json"} =>
               /\ Range(processedTweets) = Range(file.data)
               /\ Len(processedTweets) = Cardinality(Range(file.data))

\* The process has started on a file that holds a number: the seen-set is
\* empty.
C18_Witness ==
    /\ JustLoaded
    /\ file = ScalarFile(7)
    /\ processedTweets = <<>>

\* ------------------------------------------------------------------ C17
\* C17: every cycle writes the seen-set exactly once, after the last
\* username has been processed, also when no post was fetched or none was
\* new: an execution of checkForNewTweets in progress has not called
\* saveProcessedTweets, and one that has returned has called it once.
C17_PersistOncePerCycle ==
    \A c \in Cycles :
        /\ cyc[c].pc \notin {"idle", "done", "crashed"} => cyc[c].saved = 0
        /\ cyc[c].pc = "done" => cyc[c].saved = 1

\* ------------------------------------------------------------------ C19
\* The mirror that the execution c is querying.
Queried(c) == NitterInstances(variant, config)[cyc[c].inst]

\* Once the fallback has been called for a username, its mirrors are queried
\* in order from the preferred one: the k-th request goes to the k-th mirror,
\* the first mirror is the configured one, and no request goes beyond the list.
C19_InOrder ==
    \A c \in Cycles :
        /\ (cyc[c].fallback /\ cyc[c].u > 0) => cyc[c].mirrors >= 1
        /\ cyc[c].pc = "nitter" =>
              /\ cyc[c].inst = cyc[c].mirrors
              /\ cyc[c].inst \in 1..NUM_INSTANCES
              /\ cyc[c].inst = 1 => Queried(c) = env.NITTER_INSTANCE

\* What the answer of a mirror leads to: with items the fetch stops and
\* returns them; without, the next mirror is queried; after the last mirror
\* the result is empty and the execution goes on.
C19_Step ==
    lastResponse'.req = "feed" =>
        LET c == lastResponse'.c
            u == cyc[c].u
        IN  IF lastResponse'.outcome = "ok"
            THEN /\ cyc'[c].fetched[u] # <<>>
                 /\ cyc'[c].fetched[u] # Unfetched
            ELSE IF cyc[c].inst < NUM_INSTANCES
            THEN /\ cyc'[c].pc = "nitter"
                 /\ cyc'[c].u = u
                 /\ cyc'[c].inst = cyc[c].inst + 1
                 /\ cyc'[c].fetched[u] = Unfetched
            ELSE /\ cyc'[c].fetched[u] = <<>>
                 /\ cyc'[c].pc # "crashed" \/ cyc'[c].u # u

\* C19: the mirror fetch tries the preferred configured mirror first and then
\* each mirror of the fixed list in order, moves on only when the current one
\* errors or yields no item, stops at the first mirror that yields an item,
\* and returns an empty result without propagating an error when every mirror
\* fails.
C19_FallbackOrdering == []C19_InOrder /\ [][C19_Step]_vars

\* ------------------------------------------------------------------ C20
\* C20: the fallback fetch returns at most 5 posts: the first min(5, n)
\* items, in feed order, of the first mirror feed that yields n >= 1 items.
C20_Step ==
    (lastResponse'.req = "feed" /\ lastResponse'.outcome = "ok") =>
        LET c == lastResponse'.c
            u == cyc[c].u
            feed == timeline[u]
            n == Len(feed)
            k == IF n <= 5 THEN n ELSE 5
            posts == cyc'[c].fetched[u]
        IN  /\ Len(posts) = k
            /\ \A j \in 1..k : posts[j] = feed[j]

C20_FallbackCap == [][C20_Step]_vars

\* ------------------------------------------------------------------ C21
\* The ids that a call of the webhook has delivered, and those of the calls
\* that failed.
DeliveredIds == { d.id : d \in { x \in deliveries : x.ok } }
FailedIds == { d.id : d \in { x \in deliveries : ~x.ok } }
FailedIn(a) == { d.id : d \in { x \in deliveries : ~x.ok /\ x.c = a } }

\* After a failed delivery the next new post of the same username is handed
\* to sendToDiscord, and the loop ends only when every new post has been.
C21_Continue ==
    \A c \in Cycles :
        (cyc[c].pc = "sendDelay" /\ cyc'[c] # cyc[c] /\ proc' # "exit0") =>
            IF cyc[c].i < Len(cyc[c].newTweets)
            THEN /\ cyc'[c].u = cyc[c].u
                 /\ cyc'[c].i = cyc[c].i + 1
                 /\ cyc'[c].sent = Append(cyc[c].sent, cyc[c].newTweets[cyc[c].i + 1])
            ELSE cyc[c].sent = cyc[c].newTweets

\* A post whose delivery failed in an execution that has ended is among the new
\* posts of a later execution whose fetch returns it, unless it had been
\* delivered by the time that list was filtered.
C21_Again ==
    \A a, b \in Cycles :
        \A x \in FailedIn(a) :
            ( /\ a \in cyc[b].prior
              /\ cyc[b].u > 0
              /\ cyc[b].fetched[cyc[b].u] # Unfetched
              /\ x \in Range(cyc[b].fetched[cyc[b].u]) ) =>
                \/ x \in Range(cyc[b].newTweets)
                \/ x \in cyc[b].S0 /\ x \in DeliveredIds

\* The clock of the model stops at MaxTime: the second execution falls within
\* the time modelled when the timer that starts it is due by then.
SecondInTime ==
    cyc[2].pc = "idle" =>
        IF timer.armed THEN timer.next <= MaxTime
        ELSE now + config.checkIntervalMinutes <= MaxTime

\* What the eventual delivery supposes: the process is not shut down, a later
\* cycle runs, every fetch returns the posts, and no post fails in two
\* executions.
C21_Supposed ==
    /\ proc # "exit0"
    /\ SecondInTime
    /\ lastResponse.req \in {"user", "tweets", "feed", "profile"} =>
           lastResponse.outcome = "ok"
    /\ \A d, e \in deliveries : (~d.ok /\ ~e.ok /\ d.id = e.id) => d.c = e.c

\* C21: when the delivery of a post fails, the remaining new posts of the
\* username are still attempted in the same cycle, and the failed post is
\* dispatched again in the next cycle whose fetch returns it; when deliveries
\* eventually succeed, every such post is eventually delivered.
C21_AtLeastOnce ==
    /\ [][C21_Continue]_vars
    /\ []C21_Again
    /\ ([]C21_Supposed => []<>(FailedIds \subseteq DeliveredIds))

\* The delivery of 102 failed in the first execution, 103 was delivered after
\* it, and the second execution has fetched 102 again and delivered it.
C21_Witness ==
    /\ Delivery(1, 1, 102, FALSE) \in deliveries
    /\ Delivery(1, 1, 103, TRUE) \in deliveries
    /\ Delivery(2, 1, 102, TRUE) \in deliveries
    /\ 102 \in FailedIn(1) /\ 102 \in DeliveredIds
    /\ C21_Supposed

\* ------------------------------------------------------------------ C22
\* The step has handled the webhook's answer to a delivery that succeeded.
Delivers == lastResponse'.req = "webhook" /\ lastResponse'.outcome = "ok"

\* The id of the post that the execution c is delivering.
Current(c) == cyc[c].newTweets[cyc[c].i]

\* C22 as stated: for a single username, over any sequence of cycles and
\* delivery outcomes, no post is delivered after a newer post of the username
\* has been delivered (a newer post has the greater id).
C22_NeverAfterNewer ==
    [][ Delivers =>
          LET c == lastResponse'.c
          IN  \A d \in deliveries :
                  (d.ok /\ d.u = cyc[c].u) => d.id <= Current(c) ]_vars

\* C22 as amended: within one cycle, for a single username and whatever the
\* delivery outcomes, no post is delivered after a newer post of the username
\* has been delivered in that cycle.
C22_OldestFirstInCycle ==
    [][ Delivers =>
          LET c == lastResponse'.c
          IN  \A d \in deliveries :
                  (d.ok /\ d.u = cyc[c].u /\ d.c = c) => d.id <= Current(c) ]_vars

\* In the first cycle the delivery of 101 failed, then 102 was delivered, and
\* 103 has just been delivered after it.
C22_Witness ==
    /\ lastResponse = Response("webhook", "ok", 1)
    /\ cyc[1].pc = "sendDelay" /\ Current(1) = 103
    /\ Delivery(1, 1, 101, FALSE) \in deliveries
    /\ Delivery(1, 1, 102, TRUE) \in deliveries
    /\ Delivery(1, 1, 103, TRUE) \in deliveries

\* ------------------------------------------------------------------ C23
\* The execution c takes up a username in this step.
TakesUp(c) == cyc'[c].u # cyc[c].u /\ cyc'[c].u > 0

\* A username is taken up in configured order, when nothing of the previous
\* one is outstanding, and every username but the first is taken up by the
\* step that ends the pause after the previous one.
C23_Step ==
    \A c \in Cycles :
        TakesUp(c) =>
            /\ cyc'[c].u = cyc[c].u + 1
            /\ cyc[c].pc \notin {"send", "sendDelay", "profile"}
            /\ cyc[c].u > 0 => cyc[c].pc = "userDelay"

\* C23: within a cycle the usernames are processed one at a time in configured
\* order, a username's fetch starting only after the previous username's last
\* delivery has finished, and a fixed delay occurs between every two
\* consecutive usernames.
C23_SequentialWithDelay == [][C23_Step]_vars

\* ------------------------------------------------------------------ C24
\* The step is the handling of SIGINT or SIGTERM: the process exits with code 0.
Exits0 == proc # "exit0" /\ proc' = "exit0"

\* The file holds the seen-set as it is in memory, and with it every id whose
\* delivery has succeeded.
Flushed(f) ==
    /\ f.kind = "json"
    /\ f.data = processedTweets
    /\ DeliveredIds \subseteq Range(f.data)

\* A signal is handled at any point of the running process, whatever the
\* executions of checkForNewTweets are doing.
C24_AnyPoint == Running => ENABLED Signal

C25_NothingRuns ==
    ~env.DISCORD_WEBHOOK_URL =>
        /\ proc \in {"loaded", "exit1"}
        /\ \A c \in Cycles : cyc[c] = IdleCycle
        /\ startU = 0 /\ ~timer.armed
        /\ lastResponse = NoResponse
        /\ deliveries = {}

\* Without a webhook URL the first step of start() is the exit with code 1.
C25_Step ==
    (~env.DISCORD_WEBHOOK_URL /\ proc = "loaded" /\ proc' # "loaded") =>
        proc' = "exit1"

\* C25: when the webhook URL is absent the process exits with code 1 before
\* any cycle runs: before any post is fetched and any delivery attempted.
C25_ConfigFault == []C25_NothingRuns /\ [][C25_Step]_vars

\* With a token but no webhook URL the process has exited with code 1.
C25_Witness ==
    /\ ~env.DISCORD_WEBHOOK_URL /\ env.TWITTER_BEARER_TOKEN
    /\ proc = "exit1"
    /\ \A c \in Cycles : cyc[c].pc = "idle"

\* ------------------------------------------------------------------ C26
\* The step has handled a fault: a 429 or another failure of an upstream
\* request of either strategy, or a delivery that failed.
HandlesFault ==
    /\ lastResponse'.req \in {"user", "tweets", "profile", "feed", "webhook"}
    /\ lastResponse'.outcome \in {"429", "err"}

\* After a fault the process runs on and the execution that met the fault has
\* not been aborted; and an execution returns only after the last username.
C26_Step ==
    /\ HandlesFault =>
          /\ proc' = "running"
          /\ lastResponse'.c > 0 => cyc'[lastResponse'.c].pc # "crashed"
    /\ \A c \in Cycles :
          (cyc[c].pc # "done" /\ cyc'[c].pc = "done") =>
              cyc[c].u = Len(Usernames(variant))

\* C26: no quota fault, transient upstream fault, persistence fault or
\* delivery fault aborts the process or the running cycle: after such a fault
\* the cycle goes on and the remaining usernames are still processed.
C26_FaultsNeverAbort == [][C26_Step]_vars

\* ------------------------------------------------------------------ C27
\* The username whose profile request the step has handled.
ProfileOf ==
    LET c == lastResponse'.c
    IN  Usernames(variant)[IF c = 0 THEN startU ELSE cyc[c].u]

\* The step has stored the profile that upstream returned.
StoresProfile == lastResponse'.req = "profile" /\ lastResponse'.outcome = "ok"

\* A call of fetchUserProfile issues a request only for a username that has
\* no cached profile.
C27_NoRequestWhenCached ==
    /\ \A c \in Cycles :
          (cyc[c].pc # "profile" /\ cyc'[c].pc = "profile") =>
              Usernames(variant)[cyc'[c].u] \notin cachedUserProfiles'
    /\ (startU' # startU /\ startU' > 0) =>
          Usernames(variant)[startU'] \notin cachedUserProfiles'

\* No entry is removed, and no entry is written a second time; the cache
\* changes only by the profile that upstream has returned, so the placeholder
\* profile is never stored.
C27_WrittenOnce ==
    /\ cachedUserProfiles \subseteq cachedUserProfiles'
    /\ StoresProfile => ProfileOf \notin cachedUserProfiles
    /\ cachedUserProfiles' # cachedUserProfiles =>
          /\ StoresProfile
          /\ cachedUserProfiles' = cachedUserProfiles \cup {ProfileOf}

\* C27: once a profile is cached for a username, every later fetchUserProfile
\* for it returns that profile without a request, and the entry is never
\* replaced or removed; the placeholder profile returned when the fetch is
\* skipped or fails is never stored.
C27_ProfileCache == [][C27_NoRequestWhenCached /\ C27_WrittenOnce]_vars

\* ------------------------------------------------------------------ C28
\* The posts that the fallback fetch has returned, or that have been filtered.
HasPosts == probe.call \in {"fetchTweetsFromNitter", "filter"}

\* The id of each post is the number after "status/" in the item's link when
\* the link has one, and the item's guid otherwise.
C28_FromLinkOrGuid ==
    probe.call = "fetchTweetsFromNitter" =>
        /\ Len(probe.posts) = Len(probe.items)
        /\ \A k \in 1..Len(probe.items) :
              LET item == probe.items[k]
                  m == StatusMatch(item.link)
              IN  probe.posts[k] = IF m # Undefined THEN m ELSE item.guid

\* No post has a missing id.
C28_NeverMissing ==
    HasPosts => \A k \in 1..Len(probe.posts) : probe.posts[k] # Undefined

\* C28: every post that a fetch strategy produces and passes to the filter
\* has an id: the fallback uses the numeric status segment of the item's link
\* when there is one and the feed's guid otherwise, and never yields a post
\* whose id is missing.
C28_IdNeverEmpty == C28_FromLinkOrGuid /\ C28_NeverMissing

\* ------------------------------------------------------------------ C29
\* A delivery that succeeds is of a post that no earlier call has delivered.
C29_Step == Delivers => Current(lastResponse'.c) \notin DeliveredIds

\* C29: within one process lifetime no id is delivered more than once,
\* whatever the cycles, the usernames, the fetched lists (a list may hold an
\* id twice, two usernames may return the same id) and the delivery outcomes.
C29_DeliveredAtMostOnce == [][C29_Step]_vars

\* ------------------------------------------------------------------ C30
\* After the step the tracker signals skip, by the table of the specification.
SkipSignalledNext ==
    HasTracker(variant) /\ apiFailures' > 0
    /\ now' - lastApiFailure' < BackoffTable(apiFailures')

\* The execution c, which has recorded a 429 for an earlier username, takes up
\* a later one inside the backoff window.
LaterInWindow(c) ==
    TakesUp(c) /\ cyc[c].u > 0 /\ cyc[c].limited /\ SkipSignalledNext

\* The later username is not fetched with the primary strategy.
C30_SkipsPrimary ==
    \A c \in Cycles : LaterInWindow(c) => ~cyc'[c].primary

\* The later username goes directly to the fallback strategy: a mirror is
\* being queried for it.
C30_GoesToFallback ==
    \A c \in Cycles :
        LaterInWindow(c) => (cyc'[c].pc = "nitter" /\ cyc'[c].mirrors >= 1)

\* No profile request is issued while the tracker signals skip: the profile
\* fetch returns the cached or the placeholder profile at once.
C30_NoProfileRequest ==
    \A c \in Cycles :
        (cyc[c].pc # "profile" /\ cyc'[c].pc = "profile") => ~SkipSignalledNext

\* C30: backoff is process-wide: after a 429 recorded while one username is
\* processed, every later username of the same cycle processed within the
\* backoff window skips the primary strategy and goes directly to the
\* fallback, and its profile fetch returns the placeholder profile without a
\* request.
C30_ProcessWideBackoff ==
    [][C30_SkipsPrimary /\ C30_GoesToFallback /\ C30_NoProfileRequest]_vars

\* ------------------------------------------------------------------ C31
\* Backoff is active: the failure count is above 0 and the window of the count
\* has not elapsed since the last failure.
BackoffActive ==
    apiFailures > 0 /\ now - lastApiFailure < BackoffTable(apiFailures)

\* The step has started an authenticated request of execution c: the user
\* lookup or the posts request of fetchTweetsFromAPI, or the profile request
\* of fetchUserProfile.
StartsRequest(c) ==
    /\ cyc'[c].pc \in {"apiUser", "apiTweets", "profile"}
    /\ cyc'[c].pc # cyc[c].pc \/ cyc'[c].u # cyc[c].u

\* An authenticated request is started only while backoff is not active.
C31_StartedOutsideBackoff ==
    \A c \in Cycles : StartsRequest(c) => ~BackoffActive'

\* The failure count is raised only while backoff is not active, by one.
C31_OncePerWindow ==
    apiFailures' > apiFailures =>
        (~BackoffActive /\ apiFailures' = apiFailures + 1)

\* C31: no authenticated request (identifier resolution, posts, profile) is
\* started while backoff is active, so the failure count increases by at most
\* 1 per backoff window.
C31_NoRequestDuringBackoff ==
    [][C31_StartedOutsideBackoff /\ C31_OncePerWindow]_vars

\* ------------------------------------------------------------------ C32
\* The step is a successful authenticated call that resets the tracker
\* (recordApiSuccess), or a 429 that is counted (recordApiFailure).
Resets == probe'.call = "recordApiSuccess" \/ AuthSuccess
Counts ==
    \/ probe'.call = "recordApiFailure"
    \/ lastResponse'.req \in AuthRequests /\ lastResponse'.outcome = "429"

\* Any other step, the passing of time and a call of shouldSkipApi() or
\* getBackoffMinutes() after the window has elapsed included, leaves the
\* count and the last-failure time as they are; the count goes down only by a
\* reset.
C32_ExpiryAlone ==
    /\ (~Resets /\ ~Counts) => UNCHANGED <<apiFailures, lastApiFailure>>
    /\ apiFailures' < apiFailures => Resets

\* A 429 counted when the window of count f >= 1 has elapsed makes the count
\* f + 1, and the tracker then signals skip for min(2^(f+1), 60) minutes,
\* which is more than 2.
C32_NextWindow ==
    (Counts /\ HasTracker(variant) /\ apiFailures > 0 /\ ~BackoffActive) =>
        /\ apiFailures' = apiFailures + 1
        /\ getBackoffMinutes(apiFailures') = Min(Pow2(apiFailures + 1), 60)
        /\ getBackoffMinutes(apiFailures') > 2
        /\ \A t \in 0..(MAX_BACKOFF_MINUTES + 1) :
               shouldSkipApi(apiFailures', lastApiFailure', now + t)
                   <=> t < Min(Pow2(apiFailures + 1), 60)

\* C32: expiry of the backoff window alone does not change the failure
\* count: it stays at f until a successful authenticated call resets it, so a
\* 429 on the first attempt after the window elapsed raises it to f + 1 and
\* the next window is min(2^(f+1), 60) minutes rather than 2.
C32_CountSurvivesExpiry == [][C32_ExpiryAlone /\ C32_NextWindow]_vars

\* The third failure in a row was recorded after the window of the second had
\* elapsed: the count is 3 and the window is 8 minutes.
C32_Witness ==
    /\ probe.call = "recordApiFailure" /\ probe.expired
    /\ apiFailures = 3 /\ lastApiFailure = now
    /\ getBackoffMinutes(apiFailures) = 8

\* ------------------------------------------------------------------ C33
\* The step calls saveProcessedTweets: at the end of an execution of
\* checkForNewTweets, or in a signal handler.
Saves == (\E c \in Cycles : cyc'[c].saved > cyc[c].saved) \/ Exits0

\* s is a prefix of t: t is s with identifiers added at its end.
IsPrefix(s, t) == Len(s) <= Len(t) /\ SubSeq(t, 1, Len(s)) = s

\* The ids that were on file when the process started and no longer are.
Evicted ==
    IF file.kind = "json" THEN Range(CapFile.data) \ Range(file.data) ELSE {}

\* A save leaves the in-memory seen-set as it is, and every step of the
\* program keeps every identifier the set holds, in its place.
C33_OnlyGrows ==
    /\ Saves => UNCHANGED processedTweets
    /\ IsPrefix(processedTweets, processedTweets')

\* An id that the cap has evicted from the file is still in the in-memory
\* set, is in no list of new posts and has not been handed to the webhook.
C33_StillSuppressed ==
    \A id \in Evicted :
        /\ id \in Range(processedTweets)
        /\ \A c \in Cycles : id \notin Range(cyc[c].newTweets)
        /\ \A d \in deliveries : d.id # id

\* C33: saving does not modify the in-memory seen-set, and after startup no
\* cycle removes an identifier from it: the set only grows, so an identifier
\* evicted from the file by the 1000-entry cap still suppresses re-dispatch
\* while the process runs.
C33_MemoryOnlyGrows == [][C33_OnlyGrows]_vars /\ []C33_StillSuppressed

\* The first execution delivered two posts and its save evicted the ids 1 and
\* 2; the second execution of index.js has fetched the first account's list,
\* which holds the post of id 1, has found nothing new in it and has gone on
\* to the second account.
C33_Witness ==
    /\ variant = "index"
    /\ cyc[1].pc = "done" /\ cyc[3].pc = "idle"
    /\ cyc[2].u = 2 /\ cyc[2].saved = 0
    /\ cyc[2].fetched[1] = CapTimeline[1]
    /\ 1 \in Evicted
    /\ Len(processedTweets) = SAVE_CAP + 2
    /\ \A d \in deliveries : d.id # 1

\* ------------------------------------------------------------------ C34
\* The process is started again right after a save that was written: the set
\* loaded is the last min(|S|, 1000) identifiers of the set S that was saved,
\* in the same order (so it is S itself when S has at most 1000).
C34_LoadAfterSave ==
    ( /\ probe.call = "saveProcessedTweets" /\ probe.result
      /\ probe'.call = "loadProcessedTweets" ) =>
        /\ processedTweets' = LastN(processedTweets, SAVE_CAP)
        /\ Len(processedTweets) <= SAVE_CAP => processedTweets' = processedTweets

\* The set loaded from a file that a save has written is saved again: the
\* file is written as it was.
C34_SaveAfterLoad ==
    ( /\ probe.call = "loadProcessedTweets" /\ probe.result
      /\ probe'.call = "saveProcessedTweets" /\ probe'.result ) =>
        file' = file

\* C34: loading after a save of set S yields exactly the last min(|S|, 1000)
\* identifiers of S in the same insertion order with no duplicates, so save
\* followed by load is the identity on sets of at most 1000 identifiers, and
\* saving the loaded set again writes the same file.
C34_RoundTrip == [][C34_LoadAfterSave /\ C34_SaveAfterLoad]_vars

\* ------------------------------------------------------------------ C35
\* Execution c of checkForNewTweets has been started; it has returned after
\* its final saveProcessedTweets.
Started(c) == cyc[c].pc # "idle"
Completed(c) == cyc[c].pc = "done" /\ cyc[c].saved = 1

\* C35: every started cycle eventually completes: as long as every network
\* call returns or fails (and no signal ends the process), an execution of
\* checkForNewTweets that has been started reaches its final seen-set save,
\* whatever the source selection, the fetch outcomes (the fallback path
\* included) and the delivery outcomes.
C35_CycleCompletes ==
    [](proc # "exit0") => \A c \in Cycles : Started(c) ~> Completed(c)

====
